---- MODULE Spec2Model ----
(***************************************************************************)
(* Model of the /auth router of fast_api_app (routes/auth.py): signup,     *)
(* login, confirmed_email, request_email and refresh_token, over the user  *)
(* repository, the token service and the background e-mail task.           *)
(***************************************************************************)
EXTENDS Integers, Sequences, FiniteSets, TLC

VARIABLES
    users,        \* the users table: registered e-mail -> the row lookups return,
                  \* with the number of rows that carry the e-mail
    now,          \* the clock the token service reads for iat and exp
    issued,       \* every token the token service has signed so far
    mailq,        \* background tasks added by add_task(send_email, ...), not yet run
    last,         \* the step just taken: handler, arguments and response
    loginHist,    \* per e-mail, the refresh tokens of the last two successful logins
    confirmedBy,  \* e-mails for which confirmed_email answered "Email confirmed"
    exchanged,    \* refresh tokens refresh_token has answered 200 for
    reqs          \* requests in flight: refresh_token (SpecC), signup (SpecS)

vars == <<users, now, issued, mailq, last, loginHist, confirmedBy, exchanged, reqs>>

(* ------------------------------ bounds -------------------------------- *)
MaxTime == 2
MaxMail == 1

\* e-mails and passwords callers send; only SignupEmails ever sign up, so
\* "b@x.com" stays the e-mail of no account
Emails == {"a@x.com", "b@x.com"}
SignupEmails == {"a@x.com"}
Usernames == {"ann"}
Passwords == {"pw1", "pw2"}
SignupPasswords == {"pw1"}
Requests == {1, 2}

(* -------------------------- token service ----------------------------- *)
AccessTTL == 1
RefreshTTL == 2
EmailTTL == 2

\* Python None, where a token is expected
NoToken == [scope |-> "none", sub |-> "none", iat |-> 0, sig |-> "none"]
\* a string that is no JWT at all
Malformed == [scope |-> "malformed", sub |-> "none", iat |-> 0, sig |-> "bad"]

TTL(scope) ==
    CASE scope = "access_token" -> AccessTTL
      [] scope = "refresh_token" -> RefreshTTL
      [] scope = "email_token" -> EmailTTL
      [] OTHER -> 0

\* issue(kind, subject, ttl): the payload {sub, scope, iat, exp}, signed;
\* exp is iat + TTL(scope). The string is a function of the payload: two tokens
\* of one kind issued for one subject at one clock reading are the same string.
IssueToken(scope, sub, t) == [scope |-> scope, sub |-> sub, iat |-> t, sig |-> "ok"]

create_access_token(sub, t) == IssueToken("access_token", sub, t)
create_refresh_token(sub, t) == IssueToken("refresh_token", sub, t)
create_email_token(sub, t) == IssueToken("email_token", sub, t)

\* decode(token, expected_kind): signature, expiry and kind are all checked
DecodeOk(token, scope, t) ==
    /\ token.sig = "ok"
    /\ token.scope = scope
    /\ t < token.iat + TTL(scope)

\* a token with a payload of the caller's choice and a signature that does not match
Tamper(token) == [token EXCEPT !.sig = "bad"]

(* ------------------------- credential hasher -------------------------- *)
get_password_hash(p) == [alg |-> "bcrypt", digest |-> <<"H", p>>]
verify_password(p, h) == h.digest = <<"H", p>>

(* --------------------------- repository ------------------------------- *)
\* users is a function from the registered e-mails to the user rows
Registered(us, e) == e \in DOMAIN us

create_user(us, e, n, h) ==
    [x \in DOMAIN us \cup {e} |->
        IF x = e
        THEN [email |-> e, username |-> n, password |-> h,
              confirmed |-> FALSE, refresh_token |-> NoToken, rows |-> 1]
        ELSE us[x]]

\* create for an e-mail that already has a row, where the table lets it in:
\* one more row with that e-mail; lookups keep returning the first
insert_duplicate(us, e) == [us EXCEPT ![e].rows = @ + 1]

update_token(us, e, token) == [us EXCEPT ![e].refresh_token = token]

mark_confirmed(us, e) == [us EXCEPT ![e].confirmed = TRUE]

(* ---------------------------- responses ------------------------------- *)
Resp(op, e, p, tok, st, detail, acc, ref) ==
    [op |-> op, email |-> e, password |-> p, token |-> tok,
     status |-> st, detail |-> detail, access |-> acc, refresh |-> ref]

Idle ==
    [r \in Requests |-> [pc |-> "idle", token |-> NoToken, stored |-> NoToken,
                         email |-> "-", username |-> "-", password |-> "-"]]

Init ==
    /\ users = [x \in {} |-> NoToken]
    /\ now = 0
    /\ issued = {}
    /\ mailq = << >>
    /\ last = Resp("start", "-", "-", NoToken, 0, "-", NoToken, NoToken)
    /\ loginHist = [e \in Emails |-> << >>]
    /\ confirmedBy = {}
    /\ exchanged = {}
    /\ reqs = Idle

(* ------------------------------ signup -------------------------------- *)
\* the existence check left out
AccountNeverExists(us, e) == FALSE

\* lines 30-31: the existence check
AccountExists(us, e) == Registered(us, e)

\* send_email awaited inside the handler instead of added as a background task:
\* the answer waits for the send and fails with it
SignupSendsInline(e, n, p) ==
    IF AccountExists(users, e)
    THEN /\ last' = Resp("signup", e, p, NoToken, 409, "Account already exists",
                         NoToken, NoToken)
         /\ UNCHANGED <<users, now, issued, mailq, loginHist, confirmedBy,
                        exchanged, reqs>>
    ELSE /\ users' = create_user(users, e, n, get_password_hash(p))
         /\ \/ /\ issued' = issued \cup {create_email_token(e, now)}
               /\ last' = Resp("signup", e, p, NoToken, 201, "User successfully created",
                               NoToken, NoToken)
            \/ /\ issued' = issued
               /\ last' = Resp("signup", e, p, NoToken, 500, "Internal Server Error",
                               NoToken, NoToken)
         /\ UNCHANGED <<now, mailq, loginHist, confirmedBy, exchanged, reqs>>

Signup(e, n, p) ==
    IF AccountExists(users, e)
    THEN /\ last' = Resp("signup", e, p, NoToken, 409, "Account already exists",
                         NoToken, NoToken)
         /\ UNCHANGED <<users, now, issued, mailq, loginHist, confirmedBy,
                        exchanged, reqs>>
    ELSE /\ Len(mailq) < MaxMail
         /\ users' = create_user(users, e, n, get_password_hash(p))
         /\ mailq' = Append(mailq, [email |-> e, username |-> n])
         /\ last' = Resp("signup", e, p, NoToken, 201, "User successfully created",
                         NoToken, NoToken)
         /\ UNCHANGED <<now, issued, loginHist, confirmedBy, exchanged, reqs>>

(* ------------------------------- login -------------------------------- *)
Remember(h, tok) == IF Len(h) < 2 THEN Append(h, tok) ELSE <<h[2], tok>>

\* a refused login that also wipes the stored refresh token of the account
LoginFailClearsToken(e, p, detail) ==
    /\ last' = Resp("login", e, p, NoToken, 401, detail, NoToken, NoToken)
    /\ users' = IF Registered(users, e) THEN update_token(users, e, NoToken) ELSE users
    /\ UNCHANGED <<now, issued, mailq, loginHist, confirmedBy, exchanged, reqs>>

LoginFail(e, p, detail) ==
    /\ last' = Resp("login", e, p, NoToken, 401, detail, NoToken, NoToken)
    /\ UNCHANGED <<users, now, issued, mailq, loginHist, confirmedBy, exchanged, reqs>>

\* the password checked before the confirmed flag
LoginCheckPasswordFirst(us, e, p) ==
    IF ~Registered(us, e) THEN "Invalid email"
    ELSE IF ~verify_password(p, us[e].password) THEN "Invalid password"
    ELSE IF ~us[e].confirmed THEN "Email not confirmed"
    ELSE "ok"

\* the detail of the password failure pasted into the unknown-e-mail failure
LoginCheckOneMessage(us, e, p) ==
    IF ~Registered(us, e) THEN "Invalid password"
    ELSE IF ~us[e].confirmed THEN "Email not confirmed"
    ELSE IF ~verify_password(p, us[e].password) THEN "Invalid password"
    ELSE "ok"

\* lines 51-57: the three checks, in the order the handler makes them
\* the confirmed test of lines 56-57 left out
LoginCheckNoConfirmed(us, e, p) ==
    IF ~Registered(us, e) THEN "Invalid email"
    ELSE IF ~verify_password(p, us[e].password) THEN "Invalid password"
    ELSE "ok"

LoginCheck(us, e, p) ==
    IF ~Registered(us, e) THEN "Invalid email"
    ELSE IF ~us[e].confirmed THEN "Email not confirmed"
    ELSE IF ~verify_password(p, us[e].password) THEN "Invalid password"
    ELSE "ok"

\* the new refresh token returned to the caller and never persisted
LoginTokenNotStored(us, e, refresh) == us

\* line 61: the new refresh token overwrites the stored one
StoreLogin(us, e, refresh) == update_token(us, e, refresh)

Login(e, p) ==
    IF LoginCheck(users, e, p) # "ok" THEN LoginFail(e, p, LoginCheck(users, e, p))
    ELSE LET access == create_access_token(users[e].email, now)
             refresh == create_refresh_token(users[e].email, now)
         IN  /\ users' = StoreLogin(users, e, refresh)
             /\ issued' = issued \cup {access, refresh}
             /\ last' = Resp("login", e, p, NoToken, 200, "bearer", access, refresh)
             /\ loginHist' = [loginHist EXCEPT ![e] = Remember(@, refresh)]
             /\ UNCHANGED <<now, mailq, confirmedBy, exchanged, reqs>>

(* --------------------------- confirmed_email -------------------------- *)
\* the already-confirmed answer left out
NeverAlreadyConfirmed(user) == FALSE

\* line 84
AlreadyConfirmed(user) == user.confirmed

\* the success message returned without the repository call
ConfirmedNotApplied(us, e) == us

\* line 86: repository_users.confirmed_email(email, db)
ApplyConfirmed(us, e) == mark_confirmed(us, e)

\* the token decoded without asking for the e-mail kind
DecodeEmailAnyKind(token, t) == \E k \in {"access_token", "refresh_token", "email_token"} : DecodeOk(token, k, t)

\* line 80: auth_service.get_email_from_token(token) returns an e-mail
DecodeEmail(token, t) == DecodeOk(token, "email_token", t)

\* line 80 raises when the token does not decode as an e-mail token, line 83
\* when its subject has no user: both are the verification-error condition
ConfirmedEmail(token) ==
    IF ~DecodeEmail(token, now) \/ ~Registered(users, token.sub)
    THEN /\ last' = Resp("confirmed_email", "-", "-", token, 400, "Verification error",
                         NoToken, NoToken)
         /\ UNCHANGED <<users, now, issued, mailq, loginHist, confirmedBy,
                        exchanged, reqs>>
    ELSE IF AlreadyConfirmed(users[token.sub])
    THEN /\ last' = Resp("confirmed_email", token.sub, "-", token, 200,
                         "Your email is already confirmed", NoToken, NoToken)
         /\ UNCHANGED <<users, now, issued, mailq, loginHist, confirmedBy,
                        exchanged, reqs>>
    ELSE /\ users' = ApplyConfirmed(users, token.sub)
         /\ confirmedBy' = confirmedBy \cup {token.sub}
         /\ last' = Resp("confirmed_email", token.sub, "-", token, 200,
                         "Email confirmed", NoToken, NoToken)
         /\ UNCHANGED <<now, issued, mailq, loginHist, exchanged, reqs>>

(* ---------------------------- request_email --------------------------- *)
\* the confirmed test of line 109 left out: every registered user is sent a mail
RequestEmailAlwaysSends(e) ==
    IF ~Registered(users, e)
    THEN /\ last' = Resp("request_email", e, "-", NoToken, 500, "Internal Server Error",
                         NoToken, NoToken)
         /\ UNCHANGED <<users, now, issued, mailq, loginHist, confirmedBy,
                        exchanged, reqs>>
    ELSE /\ Len(mailq) < MaxMail
         /\ mailq' = Append(mailq, [email |-> users[e].email,
                                    username |-> users[e].username])
         /\ last' = Resp("request_email", e, "-", NoToken, 200,
                         "Check your email for confirmation.", NoToken, NoToken)
         /\ UNCHANGED <<users, now, issued, loginHist, confirmedBy, exchanged, reqs>>

RequestEmail(e) ==
    IF ~Registered(users, e)
    THEN \* user is None: user.confirmed raises AttributeError
         /\ last' = Resp("request_email", e, "-", NoToken, 500, "Internal Server Error",
                         NoToken, NoToken)
         /\ UNCHANGED <<users, now, issued, mailq, loginHist, confirmedBy,
                        exchanged, reqs>>
    ELSE IF users[e].confirmed
    THEN /\ last' = Resp("request_email", e, "-", NoToken, 200,
                         "Your email is already confirmed", NoToken, NoToken)
         /\ UNCHANGED <<users, now, issued, mailq, loginHist, confirmedBy,
                        exchanged, reqs>>
    ELSE /\ Len(mailq) < MaxMail
         /\ mailq' = Append(mailq, [email |-> users[e].email,
                                    username |-> users[e].username])
         /\ last' = Resp("request_email", e, "-", NoToken, 200,
                         "Check your email for confirmation.", NoToken, NoToken)
         /\ UNCHANGED <<users, now, issued, loginHist, confirmedBy, exchanged, reqs>>

(* ---------------------------- refresh_token --------------------------- *)
RefreshDenied(token, detail) ==
    Resp("refresh_token", "-", "-", token, 401, detail, NoToken, NoToken)

\* the comparison left out: no token is ever found stale
StaleNever(stored, token) == FALSE

\* line 132: the presented token is compared with the stored one by value
Stale(stored, token) == stored # token

\* the 401 raised without clearing the stored token
StoredNotCleared(us, e) == us

\* line 133: update_token(user, None, db)
ClearStored(us, e) == update_token(us, e, NoToken)

\* the new refresh token is returned and never persisted
RotatedNotStored(us, e, refresh) == us

\* line 138: update_token(user, refresh_token, db)
StoreRotated(us, e, refresh) == update_token(us, e, refresh)

\* line 130: auth_service.decode_refresh_token(token) returns an e-mail
DecodeRefresh(token, t) == DecodeOk(token, "refresh_token", t)

\* the stored token cleared for every refused token that names the user, also
\* when the token did not decode
RefreshTokenClearsOnAnyRefusal(token) ==
    IF Registered(users, token.sub)
       /\ (~DecodeRefresh(token, now) \/ Stale(users[token.sub].refresh_token, token))
    THEN /\ users' = ClearStored(users, token.sub)
         /\ last' = RefreshDenied(token, "Invalid refresh token")
         /\ UNCHANGED <<now, issued, mailq, loginHist, confirmedBy, exchanged, reqs>>
    ELSE IF ~DecodeRefresh(token, now)
    THEN /\ last' = RefreshDenied(token, "Could not validate credentials")
         /\ UNCHANGED <<users, now, issued, mailq, loginHist, confirmedBy,
                        exchanged, reqs>>
    ELSE LET access == create_access_token(token.sub, now)
             refresh == create_refresh_token(token.sub, now)
         IN  /\ users' = StoreRotated(users, token.sub, refresh)
             /\ issued' = issued \cup {access, refresh}
             /\ exchanged' = exchanged \cup {token}
             /\ last' = Resp("refresh_token", token.sub, "-", token, 200, "bearer",
                             access, refresh)
             /\ UNCHANGED <<now, mailq, loginHist, confirmedBy, reqs>>

\* the whole handler, run without interleaving; line 130 raises the token
\* service's 401 when the token does not decode as a refresh token
RefreshToken(token) ==
    IF ~DecodeRefresh(token, now)
    THEN /\ last' = RefreshDenied(token, "Could not validate credentials")
         /\ UNCHANGED <<users, now, issued, mailq, loginHist, confirmedBy,
                        exchanged, reqs>>
    ELSE IF ~Registered(users, token.sub)
    THEN \* user is None: user.refresh_token raises AttributeError
         /\ last' = Resp("refresh_token", token.sub, "-", token, 500,
                         "Internal Server Error", NoToken, NoToken)
         /\ UNCHANGED <<users, now, issued, mailq, loginHist, confirmedBy,
                        exchanged, reqs>>
    ELSE IF Stale(users[token.sub].refresh_token, token)
    THEN /\ users' = ClearStored(users, token.sub)
         /\ last' = RefreshDenied(token, "Invalid refresh token")
         /\ UNCHANGED <<now, issued, mailq, loginHist, confirmedBy, exchanged, reqs>>
    ELSE LET access == create_access_token(token.sub, now)
             refresh == create_refresh_token(token.sub, now)
         IN  /\ users' = StoreRotated(users, token.sub, refresh)
             /\ issued' = issued \cup {access, refresh}
             /\ exchanged' = exchanged \cup {token}
             /\ last' = Resp("refresh_token", token.sub, "-", token, 200, "bearer",
                             access, refresh)
             /\ UNCHANGED <<now, mailq, loginHist, confirmedBy, reqs>>

(* ------------------------- background e-mail task --------------------- *)
\* send_email runs: it issues the confirmation token and the message arrives
SendEmail ==
    /\ mailq # << >>
    /\ issued' = issued \cup {create_email_token(Head(mailq).email, now)}
    /\ mailq' = Tail(mailq)
    /\ last' = Resp("send_email", Head(mailq).email, "-", NoToken, 0, "sent",
                    NoToken, NoToken)
    /\ UNCHANGED <<users, now, loginHist, confirmedBy, exchanged, reqs>>

\* send_email fails: the error is swallowed and nothing arrives
SendEmailFails ==
    /\ mailq # << >>
    /\ mailq' = Tail(mailq)
    /\ last' = Resp("send_email", Head(mailq).email, "-", NoToken, 0, "failed",
                    NoToken, NoToken)
    /\ UNCHANGED <<users, now, issued, loginHist, confirmedBy, exchanged, reqs>>

(* ------------------------------- clock -------------------------------- *)
Tick ==
    /\ now < MaxTime
    /\ now' = now + 1
    /\ last' = Resp("tick", "-", "-", NoToken, 0, "-", NoToken, NoToken)
    /\ UNCHANGED <<users, issued, mailq, loginHist, confirmedBy, exchanged, reqs>>

(* --------------------- what a caller can present ---------------------- *)
Forged ==
    {Tamper(IssueToken(k, e, 0)) : k \in {"refresh_token", "email_token"}, e \in SignupEmails}

Presentable == issued \cup Forged \cup {Malformed}

Next ==
    \/ \E e \in SignupEmails, n \in Usernames, p \in SignupPasswords : Signup(e, n, p)
    \/ \E e \in Emails, p \in Passwords : Login(e, p)
    \/ \E t \in Presentable : ConfirmedEmail(t)
    \/ \E e \in Emails : RequestEmail(e)
    \/ \E t \in Presentable : RefreshToken(t)
    \/ SendEmail
    \/ SendEmailFails
    \/ Tick

Spec == Init /\ [][Next]_vars

(* ------------- refresh_token, one repository call per step ------------ *)
\* lines 129-131: decode, then get_user_by_email; the request keeps the row it read
RefreshLookup(r, token) ==
    /\ reqs[r].pc = "idle"
    /\ IF ~DecodeRefresh(token, now)
       THEN /\ last' = RefreshDenied(token, "Could not validate credentials")
            /\ UNCHANGED reqs
       ELSE IF ~Registered(users, token.sub)
       THEN /\ last' = Resp("refresh_token", token.sub, "-", token, 500,
                            "Internal Server Error", NoToken, NoToken)
            /\ UNCHANGED reqs
       ELSE /\ reqs' = [reqs EXCEPT ![r] = [Idle[r] EXCEPT
                                               !.pc = "looked", !.token = token,
                                               !.stored = users[token.sub].refresh_token]]
            /\ last' = Resp("lookup", token.sub, "-", token, 0, "-", NoToken, NoToken)
    /\ UNCHANGED <<users, now, issued, mailq, loginHist, confirmedBy, exchanged>>

\* line 132: the comparison, on the row the request read
RefreshCompare(r) ==
    /\ reqs[r].pc = "looked"
    /\ reqs' = [reqs EXCEPT ![r].pc =
                   IF Stale(reqs[r].stored, reqs[r].token) THEN "stale" ELSE "match"]
    /\ last' = Resp("compare", reqs[r].token.sub, "-", reqs[r].token, 0, "-",
                    NoToken, NoToken)
    /\ UNCHANGED <<users, now, issued, mailq, loginHist, confirmedBy, exchanged>>

\* lines 133-134: update_token(user, None), then the 401
RefreshClear(r) ==
    /\ reqs[r].pc = "stale"
    /\ users' = ClearStored(users, reqs[r].token.sub)
    /\ last' = RefreshDenied(reqs[r].token, "Invalid refresh token")
    /\ reqs' = [reqs EXCEPT ![r] = Idle[r]]
    /\ UNCHANGED <<now, issued, mailq, loginHist, confirmedBy, exchanged>>

\* lines 136-139: the new pair, update_token(user, refresh_token), the response
RefreshRotate(r) ==
    /\ reqs[r].pc = "match"
    /\ LET token == reqs[r].token
           access == create_access_token(token.sub, now)
           refresh == create_refresh_token(token.sub, now)
       IN  /\ users' = StoreRotated(users, token.sub, refresh)
           /\ issued' = issued \cup {access, refresh}
           /\ exchanged' = exchanged \cup {token}
           /\ last' = Resp("refresh_token", token.sub, "-", token, 200, "bearer",
                           access, refresh)
    /\ reqs' = [reqs EXCEPT ![r] = Idle[r]]
    /\ UNCHANGED <<now, mailq, loginHist, confirmedBy>>

NextC ==
    \/ \E e \in SignupEmails, n \in Usernames, p \in SignupPasswords : Signup(e, n, p)
    \/ \E e \in Emails, p \in Passwords : Login(e, p)
    \/ \E t \in Presentable : ConfirmedEmail(t)
    \/ SendEmail
    \/ Tick
    \/ \E r \in Requests, t \in Presentable : RefreshLookup(r, t)
    \/ \E r \in Requests : RefreshCompare(r)
    \/ \E r \in Requests : RefreshClear(r)
    \/ \E r \in Requests : RefreshRotate(r)

SpecC == Init /\ [][NextC]_vars

(* ====================================================================== *)
(*                               Claims                                   *)
(* ====================================================================== *)
RefreshCalled == last'.op = "refresh_token"
HasUser(e) == Registered(users, e)
Unexpired(token) == DecodeOk(token, "refresh_token", now)

\* C1: after two successive successful logins of a user, refresh_token
\* called with the refresh token of the first login answers 401 and leaves the
\* user's stored refresh token null.
C1_FirstTokenAlwaysCleared ==
    [][\A e \in Emails :
          (RefreshCalled /\ Len(loginHist[e]) = 2 /\ last'.token = loginHist[e][1])
          => (last'.status = 401 /\ users'[e].refresh_token = NoToken)]_vars

\* What the handlers do guarantee in place of C1: when the two logins returned
\* different refresh tokens (they were issued at different clock instants),
\* refresh_token called with the first one answers 401, and if that token has
\* not expired the stored refresh token is null afterwards.
C1_FirstLoginTokenInvalidated ==
    [][\A e \in Emails :
          (RefreshCalled /\ Len(loginHist[e]) = 2 /\ last'.token = loginHist[e][1]
             /\ loginHist[e][1] # loginHist[e][2])
          => /\ last'.status = 401
             /\ Unexpired(last'.token) => users'[e].refresh_token = NoToken]_vars

C1_Witness ==
    \E e \in Emails :
        /\ Len(loginHist[e]) = 2
        /\ loginHist[e][1] # loginHist[e][2]
        /\ last.op = "refresh_token"
        /\ last.token = loginHist[e][1]
        /\ last.status = 401
        /\ last.detail = "Invalid refresh token"
        /\ users[e].refresh_token = NoToken

\* C2: refresh_token called with the token currently stored for the
\* user succeeds and stores a new, different token; called again at once with
\* the same token it answers 401.
C2_ReplayAlwaysRejected ==
    [][/\ (RefreshCalled /\ HasUser(last'.token.sub)
             /\ last'.token = users[last'.token.sub].refresh_token)
          => /\ last'.status = 200
             /\ last'.refresh # last'.token
             /\ users'[last'.token.sub].refresh_token = last'.refresh
       /\ (RefreshCalled /\ last.op = "refresh_token" /\ last.status = 200
             /\ last'.token = last.token)
          => last'.status = 401]_vars

\* What the handlers do guarantee in place of C2: refresh_token called with the
\* stored token, not yet expired, succeeds and stores the token it returns; when
\* the returned token differs from the presented one (it was issued at a later
\* clock instant), the same token presented again at once answers 401.
C2_RotateThenReplayRejected ==
    [][/\ (RefreshCalled /\ HasUser(last'.token.sub)
             /\ last'.token = users[last'.token.sub].refresh_token
             /\ Unexpired(last'.token))
          => /\ last'.status = 200
             /\ last'.refresh = create_refresh_token(last'.token.sub, now)
             /\ users'[last'.token.sub].refresh_token = last'.refresh
       /\ (RefreshCalled /\ last.op = "refresh_token" /\ last.status = 200
             /\ last'.token = last.token /\ last.refresh # last.token)
          => last'.status = 401]_vars

\* a rotation at a later instant than the login happened, and the old token
\* presented again was refused
C2_Witness ==
    /\ last.op = "refresh_token"
    /\ last.status = 401
    /\ last.detail = "Invalid refresh token"
    /\ last.token \in exchanged
    /\ Unexpired(last.token)

\* C3: whatever the interleaving of refresh_token requests, a refresh token
\* value is exchanged for a new pair at most once: a request that answers 200
\* presented a token no earlier request was answered 200 for.
C3_ExchangedAtMostOnce ==
    [][(RefreshCalled /\ last'.status = 200) => last'.token \notin exchanged]_vars

IsConfirmed(us, e) == Registered(us, e) /\ us[e].confirmed

\* C4: login for a user whose confirmed flag is false answers 401 "Email not
\* confirmed", with the right password as with a wrong one, and issues and
\* stores no token.
C4_UnconfirmedLoginRefused ==
    [][(last'.op = "login" /\ HasUser(last'.email) /\ ~users[last'.email].confirmed)
       => /\ last'.status = 401
          /\ last'.detail = "Email not confirmed"
          /\ last'.access = NoToken /\ last'.refresh = NoToken
          /\ issued' = issued
          /\ users' = users]_vars

\* an unconfirmed user was refused although the password was the right one
C4_Witness ==
    /\ last.op = "login"
    /\ HasUser(last.email)
    /\ ~users[last.email].confirmed
    /\ verify_password(last.password, users[last.email].password)
    /\ last.detail = "Email not confirmed"

\* C5: a user is confirmed exactly when a confirmed_email call with a valid
\* e-mail token for that user's e-mail has answered "Email confirmed"; the flag
\* turns true in such a step and in no other.
C5_ConfirmedIffConfirmation ==
    /\ [](\A e \in Emails : IsConfirmed(users, e) <=> e \in confirmedBy)
    /\ [][\A e \in Emails :
            (IsConfirmed(users', e) /\ ~IsConfirmed(users, e))
            <=> (/\ last'.op = "confirmed_email"
                 /\ last'.detail = "Email confirmed"
                 /\ last'.token.sub = e
                 /\ DecodeOk(last'.token, "email_token", now))]_vars

C5_Witness ==
    /\ last.op = "confirmed_email"
    /\ last.detail = "Email confirmed"
    /\ IsConfirmed(users, last.email)
    /\ last.email \in confirmedBy

\* C6: the confirmed flag is false when the user is created, and once true it
\* stays true through every operation.
C6_ConfirmedMonotonic ==
    [][\A e \in Emails :
          /\ (~HasUser(e) /\ Registered(users', e)) => ~users'[e].confirmed
          /\ IsConfirmed(users, e) => IsConfirmed(users', e)]_vars

\* a signup for the e-mail of a confirmed user was refused and the user is
\* still confirmed
C6_Witness ==
    /\ last.op = "signup"
    /\ last.status = 409
    /\ IsConfirmed(users, last.email)

\* C7: confirmed_email with a valid, unexpired token of an already confirmed
\* user answers 200 "Your email is already confirmed" and changes no user
\* record; called again with the same token it gives the same answer.
C7_ConfirmAgainIdempotent ==
    [][/\ (last'.op = "confirmed_email"
             /\ DecodeOk(last'.token, "email_token", now)
             /\ IsConfirmed(users, last'.token.sub))
          => /\ last'.status = 200
             /\ last'.detail = "Your email is already confirmed"
             /\ users' = users
       /\ (last.op = "confirmed_email"
             /\ last.detail = "Your email is already confirmed"
             /\ last'.op = "confirmed_email" /\ last'.token = last.token)
          => (last' = last /\ users' = users)]_vars

C7_Witness ==
    /\ last.op = "confirmed_email"
    /\ last.status = 200
    /\ last.detail = "Your email is already confirmed"
    /\ DecodeOk(last.token, "email_token", now)
    /\ IsConfirmed(users, last.token.sub)

\* C8: request_email for an e-mail of no registered user answers 200 "Check
\* your email for confirmation.", queues no e-mail and changes no stored state.
C8_UnknownEmailNoOp ==
    [][(last'.op = "request_email" /\ ~HasUser(last'.email))
       => /\ last'.status = 200
          /\ last'.detail = "Check your email for confirmation."
          /\ mailq' = mailq
          /\ users' = users]_vars

WrongPassword(e, p) == IsConfirmed(users, e) /\ ~verify_password(p, users[e].password)

Accepts(us, token, t) ==
    /\ DecodeRefresh(token, t)
    /\ Registered(us, token.sub)
    /\ ~Stale(us[token.sub].refresh_token, token)

RefreshIssued(e) == {t \in issued : t.scope = "refresh_token" /\ t.sub = e}

\* the step stored a new refresh token for e (login or rotation) or cleared it
StoredReplaced(e) ==
    /\ HasUser(e)
    /\ \/ last'.op \in {"login", "refresh_token"} /\ last'.status = 200 /\ last'.email = e
       \/ users[e].refresh_token # NoToken /\ users'[e].refresh_token = NoToken

\* C11: a user has at most one refresh token that refresh_token would accept,
\* the stored one; every refresh token issued for the user before the latest
\* successful login or rotation, or before a clearing of the stored value, is
\* rejected from then on.
C11_OnlyLatestTokenAccepted ==
    [][\A e \in Emails :
          /\ \A t \in {x \in issued' : x.scope = "refresh_token" /\ x.sub = e} :
                Accepts(users', t, now') => t = users'[e].refresh_token
          /\ StoredReplaced(e)
             => \A t \in RefreshIssued(e) : ~Accepts(users', t, now')]_vars

\* What the handlers do guarantee in place of C11: an accepted refresh token is
\* the stored one, and after a login, rotation or clearing every refresh token
\* issued earlier for the user, other than the one now stored, is rejected.
C11_AcceptedIsStored ==
    [][\A e \in Emails :
          /\ \A t \in {x \in issued' : x.scope = "refresh_token" /\ x.sub = e} :
                Accepts(users', t, now') => t = users'[e].refresh_token
          /\ StoredReplaced(e)
             => \A t \in RefreshIssued(e) \ {users'[e].refresh_token} :
                   ~Accepts(users', t, now')]_vars


C13_StoredIsReturned ==
    [][(last'.op \in {"login", "refresh_token"} /\ last'.status = 200)
       => /\ last'.refresh # NoToken
          /\ Registered(users', last'.email)
          /\ users'[last'.email].refresh_token = last'.refresh]_vars

\* a second login returned and stored a token other than the first login's
C13_Witness ==
    /\ last.op = "login"
    /\ last.status = 200
    /\ Len(loginHist[last.email]) = 2
    /\ loginHist[last.email][1] # last.refresh
    /\ users[last.email].refresh_token = last.refresh

\* C14: signup with an e-mail that is already registered answers 409 "Account
\* already exists", creates no user, queues no e-mail and leaves the existing
\* user's password hash, confirmed flag and stored refresh token as they were.
C14_DuplicateSignupRefused ==
    [][(last'.op = "signup" /\ HasUser(last'.email))
       => /\ last'.status = 409
          /\ last'.detail = "Account already exists"
          /\ users' = users
          /\ mailq' = mailq]_vars

\* a signup for the e-mail of a confirmed, logged-in user was refused and the
\* user still has the flag and the stored token
C14_Witness ==
    /\ last.op = "signup"
    /\ last.status = 409
    /\ IsConfirmed(users, last.email)
    /\ users[last.email].refresh_token # NoToken


(* ---------------- signup, one repository call per step ---------------- *)
\* lines 30-32: get_user_by_email and the 409
SignupCheck(r, e, n, p) ==
    /\ reqs[r].pc = "idle"
    /\ IF AccountExists(users, e)
       THEN /\ last' = Resp("signup", e, p, NoToken, 409, "Account already exists",
                            NoToken, NoToken)
            /\ UNCHANGED reqs
       ELSE /\ reqs' = [reqs EXCEPT ![r] = [Idle[r] EXCEPT !.pc = "checked", !.email = e,
                                               !.username = n, !.password = p]]
            /\ last' = Resp("signup_check", e, p, NoToken, 0, "-", NoToken, NoToken)
    /\ UNCHANGED <<users, now, issued, mailq, loginHist, confirmedBy, exchanged>>

\* lines 33-36: create_user, add_task, the 201. When another request created
\* the e-mail's row since line 30, the insert either violates the table's
\* unique constraint (the handler dies with a 500) or adds a second row.
SignupCreate(r) ==
    /\ reqs[r].pc = "checked"
    /\ reqs' = [reqs EXCEPT ![r] = Idle[r]]
    /\ LET e == reqs[r].email
           n == reqs[r].username
           p == reqs[r].password
           created == Resp("signup", e, p, NoToken, 201, "User successfully created",
                           NoToken, NoToken)
       IN  IF ~Registered(users, e)
           THEN /\ Len(mailq) < MaxMail
                /\ users' = create_user(users, e, n, get_password_hash(p))
                /\ mailq' = Append(mailq, [email |-> e, username |-> n])
                /\ last' = created
           ELSE \/ /\ last' = Resp("signup", e, p, NoToken, 500, "Internal Server Error",
                                   NoToken, NoToken)
                   /\ UNCHANGED <<users, mailq>>
                \/ /\ Len(mailq) < MaxMail
                   /\ users' = insert_duplicate(users, e)
                   /\ mailq' = Append(mailq, [email |-> e, username |-> n])
                   /\ last' = created
    /\ UNCHANGED <<now, issued, loginHist, confirmedBy, exchanged>>

NextS ==
    \/ \E r \in Requests, e \in SignupEmails, n \in Usernames, p \in SignupPasswords :
          SignupCheck(r, e, n, p)
    \/ \E r \in Requests : SignupCreate(r)
    \/ \E e \in Emails, p \in Passwords : Login(e, p)
    \/ \E t \in Presentable : ConfirmedEmail(t)
    \/ \E e \in Emails : RequestEmail(e)
    \/ \E t \in Presentable : RefreshToken(t)
    \/ SendEmail
    \/ SendEmailFails
    \/ Tick

SpecS == Init /\ [][NextS]_vars

\* C15: e-mail is unique across users in every reachable state: however
\* concurrent signup requests for one e-mail interleave, at most one of them
\* creates a user and the others answer 409.
C15_OneSignupWins ==
    [][/\ \A e \in Emails : Registered(users', e) => users'[e].rows = 1
       /\ (last'.op = "signup" /\ HasUser(last'.email))
          => (last'.status = 409 /\ users' = users /\ mailq' = mailq)]_vars


\* C16: a token that fails to decode (bad signature, malformed, expired or of
\* another kind) ends refresh_token with 401 and confirmed_email with the
\* verification error, and no user's stored refresh token or confirmed flag
\* changes; an expired refresh token that equals the stored value does not
\* clear it.
C16_DecodeFailureNoSideEffect ==
    [][/\ (RefreshCalled /\ ~DecodeRefresh(last'.token, now))
          => /\ last'.status = 401
             /\ last'.access = NoToken /\ last'.refresh = NoToken
             /\ users' = users
       /\ (last'.op = "confirmed_email" /\ ~DecodeEmail(last'.token, now))
          => /\ last'.status = 400
             /\ users' = users]_vars

\* the stored refresh token was presented after it expired: the call was
\* refused and the stored value is still that token
C16_Witness ==
    /\ last.op = "refresh_token"
    /\ last.status = 401
    /\ last.token.sig = "ok"
    /\ last.token.scope = "refresh_token"
    /\ ~Unexpired(last.token)
    /\ HasUser(last.token.sub)
    /\ users[last.token.sub].refresh_token = last.token


Queued(e) == mailq' = Append(mailq, [email |-> e, username |-> users'[e].username])

\* C17: the confirmation e-mail is fire-and-forget: signup and request_email
\* give their answer and leave the users table as it will stay while the send
\* task is only queued, and the task, whether it then succeeds or fails,
\* changes no user and no answer already given.
C17_SendIsFireAndForget ==
    [][/\ (last'.op = "signup" /\ ~HasUser(last'.email))
          => /\ last'.status = 201
             /\ Registered(users', last'.email)
             /\ Queued(last'.email)
             /\ issued' = issued
       /\ (last'.op = "request_email" /\ HasUser(last'.email)
             /\ ~users[last'.email].confirmed)
          => /\ last'.status = 200
             /\ Queued(last'.email)
             /\ issued' = issued
             /\ users' = users
       /\ last'.op = "send_email"
          => /\ last'.detail \in {"sent", "failed"}
             /\ users' = users
             /\ mailq' = Tail(mailq)
             /\ UNCHANGED <<now, loginHist, confirmedBy, exchanged, reqs>>]_vars

\* the send task of a signup failed and the user the signup created is there
C17_Witness ==
    /\ last.op = "send_email"
    /\ last.detail = "failed"
    /\ HasUser(last.email)
    /\ ~users[last.email].confirmed
    /\ issued = {}


\* C18: request_email for a registered, confirmed user answers "Your email is
\* already confirmed", queues nothing and changes no stored state; for a
\* registered, unconfirmed user it queues exactly one confirmation mail and the
\* confirmed flag stays false.
C18_RequestEmailByConfirmedFlag ==
    [][(last'.op = "request_email" /\ HasUser(last'.email))
       => /\ last'.status = 200
          /\ users' = users
          /\ issued' = issued
          /\ IF users[last'.email].confirmed
             THEN /\ last'.detail = "Your email is already confirmed"
                  /\ mailq' = mailq
             ELSE /\ last'.detail = "Check your email for confirmation."
                  /\ Len(mailq') = Len(mailq) + 1
                  /\ Queued(last'.email)
                  /\ ~users'[last'.email].confirmed]_vars

\* a confirmed user asked for the confirmation mail again
C18_Witness ==
    /\ last.op = "request_email"
    /\ HasUser(last.email)
    /\ users[last.email].confirmed
    /\ last.detail = "Your email is already confirmed"
    /\ mailq = << >>

\* C19: a login refused for any of its three reasons leaves every user's stored
\* refresh token and confirmed flag as they were, so the session the user
\* already holds stays valid.
C19_FailedLoginChangesNothing ==
    [][(last'.op = "login" /\ last'.status # 200)
       => /\ last'.status = 401
          /\ last'.detail \in {"Invalid email", "Email not confirmed", "Invalid password"}
          /\ users' = users
          /\ issued' = issued]_vars

\* a wrong password was refused while the account holds a stored refresh token
C19_Witness ==
    /\ last.op = "login"
    /\ last.status = 401
    /\ last.detail = "Invalid password"
    /\ HasUser(last.email)
    /\ users[last.email].refresh_token # NoToken

\* C20: in every reachable state a user whose stored refresh token is non-null
\* is confirmed, and the stored token is a refresh token whose subject is that
\* user's own e-mail.
C20_StoredTokenIsOwnRefreshToken ==
    \A e \in DOMAIN users :
        users[e].refresh_token # NoToken
        => /\ users[e].confirmed
           /\ users[e].refresh_token.scope = "refresh_token"
           /\ users[e].refresh_token.sub = e

\* a refresh has rotated the stored token of a user
C20_Witness ==
    /\ last.op = "refresh_token"
    /\ last.status = 200
    /\ HasUser(last.email)
    /\ users[last.email].refresh_token # NoToken

====
